---- MODULE Spec2Model ----
(***************************************************************************)
(* Model of RQClient (infrastructure/rq_client/rq_client.py): a client     *)
(* over a Redis-RQ job queue.  The client's constructor and its five       *)
(* operations are translated from the source, one backend access per       *)
(* library call the source makes.  The backend (redis, rq, the worker) is  *)
(* not part of the repository: the worker's lifecycle steps follow the     *)
(* specification's job state machine, and each library call follows what   *)
(* redis-py / rq do at that call site (stated at each definition).         *)
(***************************************************************************)
EXTENDS Integers, Sequences, FiniteSets, TLC

(* ------------------------------ bounds --------------------------------- *)

\* Jobs the backend accepts before Enqueue is no longer offered by the model.
MaxJobs == 2

(* --------------------------- program constants ------------------------- *)

\* job_timeout: int = 3600
DefaultJobTimeout == 3600

\* os.getenv("REDIS_URL", "redis://localhost:6379/0"): the hard-coded default.
DefaultUrl == "redis://localhost:6379/0"

(* ------------------------------ inputs --------------------------------- *)

\* Python's None, for an omitted argument, an unset variable, an absent value.
None == "None"

\* Addresses a caller or the environment can supply.  "" is a supplied but
\* malformed address: it is not None, so it is used as given.
ArgUrl == "redis://arg-host:6379/0"
EnvUrl == "redis://env-host:6379/1"
ArgChoices == {None, "", ArgUrl}
EnvChoices == {None, EnvUrl}

\* The callers (threads or tasks) that issue operations on the one Client.
Callers == {"c1"}

\* function_path values handed to Enqueue; the Client forwards them unread.
Funcs == {"tasks.noop", "tasks.answer"}

\* Values a job's function can return to the worker that runs it.
Values == {"v0", "v42"}

\* A job ID is a string.  "job-n" with n >= 1 stands for the n-th uuid4 rq
\* generates and "job-0" for a well-formed ID no job ever has.  enqueue_job
\* returns job.id as rq holds it: nothing in the Client makes it non-empty
\* or unique.
JobId(n) == "job-" \o ToString(n)
EmptyId == ""

\* **kwargs of enqueue_job is forwarded unread to Queue.enqueue, and rq takes
\* its own options out of it before the job's function sees the rest.  Two
\* of them decide what the Client returns later: job_id, the ID to give the
\* job (omitted, or a string the caller chose, of which the empty string is
\* one), and depends_on, the ID of a job this one waits for (omitted, or the
\* ID an earlier Enqueue returned).
JobIdChoices == {None, EmptyId}
DependsOnChoices == {None, JobId(1)}

\* The statuses the specification and the docstring of get_job_status name.
Statuses == {"queued", "started", "finished", "failed", "canceled"}

(* ------------------------------- state --------------------------------- *)

VARIABLES
    environ,    \* value of the REDIS_URL environment variable, or None
    netUp,      \* whether the backend is reachable right now
    client,     \* the RQClient object: construction state, argument, connection, queue
    jobs,       \* the backend's jobs, jobs[id] being the job saved under key id
    call        \* per caller: the operation in progress or its returned value

vars == <<environ, netUp, client, jobs, call>>

(* --------------------------- result values ----------------------------- *)

\* result.Ok(value) / result.Err(message).  A message is the pair of the
\* operation's fixed prefix and the text of the formatted exception or status.
Ok(v) == [kind |-> "Ok", value |-> v]
Err(prefix, detail) == [kind |-> "Err", value |-> <<prefix, detail>>]

\* An exception that leaves a function instead of a returned value.
Raised(exc, text) == [kind |-> "Raised", value |-> <<exc, text>>]

\* No value returned (yet).
NoRet == [kind |-> "none", value |-> None]

(* ----------------------------- construction ---------------------------- *)

\* os.getenv(name, default): the variable's value when it is set, even to "".
Getenv(env, default) == IF env = None THEN default ELSE env

\* A slip that lets the environment variable override the explicit argument.
ResolveUrlEnvFirst(redis_url, env) ==
    IF env # None THEN env
    ELSE IF redis_url = None THEN DefaultUrl ELSE redis_url

\* Lines 32-33: the address the constructor connects to.
ResolveUrl(redis_url, env) ==
    IF redis_url = None THEN Getenv(env, DefaultUrl) ELSE redis_url

\* redis.from_url(url) parses the address and builds a connection pool; it
\* opens no socket, so it raises for an address it cannot parse (ValueError)
\* and for nothing else, whether or not the server can be reached.
\* Queue(connection=...) binds the default queue and performs no I/O.
FromUrlRaises(url, up) == url = ""

\* Lines 26-39: RQClient.__init__.  state is "raised" when __init__ raised
\* RuntimeError and no object was returned, "ready" when the Client exists;
\* url is the local redis_url after lines 32-33, conn and queue the fields
\* _redis_connection and _queue.
NewClient(redis_url, env, up) ==
    LET url == ResolveUrl(redis_url, env) IN
    IF FromUrlRaises(url, up)
    THEN [state |-> "raised", arg |-> redis_url, url |-> url, conn |-> None, queue |-> None,
          error |-> Raised("RuntimeError", <<"Failed to connect to Redis: ", "ValueError">>)]
    ELSE [state |-> "ready", arg |-> redis_url, url |-> url, conn |-> url, queue |-> "default",
          error |-> NoRet]

\* Before the constructor has run.
NoClient ==
    [state |-> "none", arg |-> None, url |-> None, conn |-> None, queue |-> None, error |-> NoRet]

Construct(redis_url) ==
    /\ client.state = "none"
    /\ client' = NewClient(redis_url, environ, netUp)
    /\ UNCHANGED <<environ, netUp, jobs, call>>

(* ------------------------------ backend -------------------------------- *)

\* The IDs under which the backend holds a job; it holds one job per ID.
Issued(js) == DOMAIN js

\* The backend with no job.
NoJobs == [id \in {} |-> None]

\* IDs a caller passes to Status, Metadata, Cancel and Result: every ID the
\* backend holds (the empty one included once a job was submitted under it)
\* and "job-0", which no job has.
IdInputs(js) == Issued(js) \cup {JobId(0)}

\* Job.fetch(job_id, connection=...): the exception it raises, or None.
\* redis raises ConnectionError when the server cannot be reached; rq raises
\* NoSuchJobError when no job has this ID.
FetchRaises(id, js, up) ==
    IF ~up THEN "ConnectionError"
    ELSE IF id \notin Issued(js) THEN "NoSuchJobError"
    ELSE None

\* job.id of the job Queue.enqueue builds: the forwarded job_id when there is
\* one (rq's set_id accepts every string, the empty one included), else a
\* uuid4, which no job on the backend has.
NewId(job_id, js) ==
    IF job_id = None THEN JobId(Cardinality(Issued(js) \ {EmptyId}) + 1) ELSE job_id

\* The status Queue.enqueue leaves the job in: deferred, and not put on the
\* queue, while a job named by depends_on is on the backend and has not
\* finished; queued otherwise (no depends_on, the dependency finished, or no
\* job of that ID, which rq drops from the dependencies).
InitialStatus(depends_on, js) ==
    IF depends_on \in Issued(js) /\ js[depends_on].status # "finished"
    THEN "deferred"
    ELSE "queued"

\* The job Queue.enqueue builds from what enqueue_job forwards: the timeout,
\* the status rq gives it, no result, empty metadata ("m0"), and the
\* dependency it waits for while deferred.  function_path, *args and the
\* keyword arguments rq does not take for itself are stored for the worker
\* that runs the job; no method of the Client reads them back, and what the
\* job's function returns is the worker's choice in WorkerFinish.
NewJob(job_timeout, depends_on, js) ==
    LET st == InitialStatus(depends_on, js) IN
    [timeout |-> job_timeout, status |-> st, result |-> None, meta |-> "m0",
     dep |-> IF st = "deferred" THEN depends_on ELSE None]

\* The backend after Queue.enqueue saved the job.  rq writes the job's
\* fields under the key of its ID without asking whether a job is there: a
\* job_id in use names the same key, so the job under it gets the new
\* timeout, status and dependency, and keeps the fields a new job does not
\* write (result, metadata).
Save(js, id, job) ==
    IF id \in Issued(js)
    THEN [js EXCEPT ![id] = [job EXCEPT !.result = js[id].result, !.meta = js[id].meta]]
    ELSE [i \in Issued(js) \cup {id} |-> IF i = id THEN job ELSE js[i]]

\* rt counts the backend calls (Queue.enqueue, Job.fetch, get_status,
\* is_finished, result, cancel) the operation has made so far.
Idle == [op |-> "idle", id |-> EmptyId, pc |-> "idle", st |-> None, ret |-> NoRet, rt |-> 0]

\* Backend calls made by c's operation once the step being taken has made
\* its own; every step of a method makes exactly one.
Trips(c) == (IF call[c].pc \in {"idle", "done"} THEN 0 ELSE call[c].rt) + 1

CanCall(c) == client.state = "ready" /\ call[c].pc \in {"idle", "done"}

Return(c, op, id, st, r) ==
    call' = [call EXCEPT ![c] = [op |-> op, id |-> id, pc |-> "done", st |-> st, ret |-> r,
                                 rt |-> Trips(c)]]

Goto(c, op, id, pc, st) ==
    call' = [call EXCEPT ![c] = [op |-> op, id |-> id, pc |-> pc, st |-> st, ret |-> NoRet,
                                 rt |-> Trips(c)]]

\* A read or write of a fetched job over the connection (get_status, result,
\* cancel): redis raises ConnectionError when the server cannot be reached.
AccessRaises(up) == IF ~up THEN "ConnectionError" ELSE None

(* ------------------------------ enqueue_job ---------------------------- *)

\* Lines 59-68: Ok(job.id) of the job queue.enqueue returned, or the caught
\* exception as Err.
EnqueueReturn(exc, id) ==
    IF exc # None THEN Err("Failed to enqueue job: ", exc) ELSE Ok(id)

\* A variant that drops the connection when a submission fails.
EnqueueJobClose(c, f, job_id, depends_on) ==
    /\ CanCall(c)
    /\ LET exc == AccessRaises(netUp)
           id == NewId(job_id, jobs)
           job == NewJob(DefaultJobTimeout, depends_on, jobs) IN
       /\ id \notin Issued(jobs) => Cardinality(Issued(jobs)) < MaxJobs
       /\ jobs' = IF exc = None THEN Save(jobs, id, job) ELSE jobs
       /\ client' = IF exc = None THEN client ELSE [client EXCEPT !.conn = None]
       /\ Return(c, "enqueue", EmptyId, None, EnqueueReturn(exc, id))
    /\ UNCHANGED <<environ, netUp>>

\* Lines 41-68: enqueue_job(function_path, *args, job_timeout=3600, **kwargs),
\* called with the default job_timeout.  f is function_path; job_id and
\* depends_on are the entries of **kwargs that rq takes for itself (None
\* when the caller passes none).  Queue.enqueue is the method's one backend
\* call and is one step here; when it raises nothing was saved.  The guard
\* keeps the backend within MaxJobs jobs; a submission under an ID in use
\* adds none.
EnqueueJob(c, f, job_id, depends_on) ==
    /\ CanCall(c)
    /\ LET exc == AccessRaises(netUp)
           id == NewId(job_id, jobs)
           job == NewJob(DefaultJobTimeout, depends_on, jobs) IN
       /\ id \notin Issued(jobs) => Cardinality(Issued(jobs)) < MaxJobs
       /\ jobs' = IF exc = None THEN Save(jobs, id, job) ELSE jobs
       /\ Return(c, "enqueue", EmptyId, None, EnqueueReturn(exc, id))
    /\ UNCHANGED <<environ, netUp, client>>

(* ---------------------------- get_job_status --------------------------- *)

\* Lines 80-84: Ok(job.get_status()), or the caught exception as Err.
StatusReturn(exc, st) ==
    IF exc # None THEN Err("Failed to get job status: ", exc) ELSE Ok(st)

\* A variant that returns the status Job.fetch loaded, without get_status().
StatusFetchSnapshot(c, id) ==
    /\ CanCall(c)
    /\ LET exc == FetchRaises(id, jobs, netUp)
           st == IF exc = None THEN jobs[id].status ELSE None IN
       Return(c, "status", id, None, StatusReturn(exc, st))
    /\ UNCHANGED <<environ, netUp, client, jobs>>

\* Line 81: Job.fetch.
StatusFetch(c, id) ==
    /\ CanCall(c)
    /\ LET exc == FetchRaises(id, jobs, netUp) IN
       IF exc # None
       THEN Return(c, "status", id, None, StatusReturn(exc, None))
       ELSE Goto(c, "status", id, "fetched", None)
    /\ UNCHANGED <<environ, netUp, client, jobs>>

\* Line 82: job.get_status() reads the job's status from the backend again.
StatusGet(c) ==
    /\ call[c].op = "status" /\ call[c].pc = "fetched"
    /\ LET id == call[c].id
           st == jobs[id].status IN
       Return(c, "status", id, None, StatusReturn(AccessRaises(netUp), st))
    /\ UNCHANGED <<environ, netUp, client, jobs>>

(* ----------------------------- get_job_meta ---------------------------- *)

\* A slip that answers an unknown job with empty metadata.
MetaReturnDefault(exc, meta) ==
    IF exc = "NoSuchJobError" THEN Ok("m0")
    ELSE IF exc # None THEN Err("Failed to get job metadata: ", exc)
    ELSE Ok(meta)

\* Lines 95-99: Ok(job.meta), the metadata Job.fetch loaded, or the caught
\* exception as Err.
MetaReturn(exc, meta) ==
    IF exc # None THEN Err("Failed to get job metadata: ", exc) ELSE Ok(meta)

\* A variant that answers from the metadata the job had when it was enqueued.
GetJobMetaStale(c, id) ==
    /\ CanCall(c)
    /\ LET exc == FetchRaises(id, jobs, netUp)
           meta == IF exc = None THEN NewJob(DefaultJobTimeout, None, jobs).meta
                   ELSE None IN
       Return(c, "meta", id, None, MetaReturn(exc, meta))
    /\ UNCHANGED <<environ, netUp, client, jobs>>

\* Lines 86-99: get_job_meta; job.meta is an attribute of the fetched job, so
\* the call is one backend access.
GetJobMeta(c, id) ==
    /\ CanCall(c)
    /\ LET exc == FetchRaises(id, jobs, netUp)
           meta == IF exc = None THEN jobs[id].meta ELSE None IN
       Return(c, "meta", id, None, MetaReturn(exc, meta))
    /\ UNCHANGED <<environ, netUp, client, jobs>>

(* ------------------------------ cancel_job ----------------------------- *)

\* A slip that catches only the missing job, as "except NoSuchJobError" would.
CancelReturnNarrow(exc) ==
    IF exc = None THEN Ok(None)
    ELSE IF exc = "NoSuchJobError" THEN Err("Failed to cancel job: ", exc)
    ELSE Raised(exc, exc)

\* Lines 110-115: Ok(None) once job.cancel() returned, or the caught
\* exception as Err.
CancelReturn(exc) ==
    IF exc # None THEN Err("Failed to cancel job: ", exc) ELSE Ok(None)

\* job.cancel(): rq refuses a job whose status is already canceled
\* (InvalidJobOperation) and moves a job in any other status to canceled; it
\* does not look at whether that status is terminal.  A canceled job waits
\* for nothing: rq does not put it on the queue when its dependency finishes.
CancelRaises(st, up) ==
    IF ~up THEN "ConnectionError"
    ELSE IF st = "canceled" THEN "InvalidJobOperation"
    ELSE None

\* Line 111: Job.fetch.
CancelFetch(c, id) ==
    /\ CanCall(c)
    /\ LET exc == FetchRaises(id, jobs, netUp) IN
       IF exc # None
       THEN Return(c, "cancel", id, None, CancelReturn(exc))
       ELSE Goto(c, "cancel", id, "fetched", None)
    /\ UNCHANGED <<environ, netUp, client, jobs>>

\* Lines 112-113: job.cancel(); return Ok(None).
CancelJob(c) ==
    /\ call[c].op = "cancel" /\ call[c].pc = "fetched"
    /\ LET id == call[c].id
           exc == CancelRaises(jobs[id].status, netUp) IN
       /\ jobs' = IF exc = None
                  THEN [jobs EXCEPT ![id].status = "canceled", ![id].dep = None]
                  ELSE jobs
       /\ Return(c, "cancel", id, None, CancelReturn(exc))
    /\ UNCHANGED <<environ, netUp, client>>

(* ---------------------------- get_job_result --------------------------- *)

\* A slip that takes every status a worker ends a job in for finished.
IsFinishedAnyEnd(st) == st \in {"finished", "failed"}

\* Line 128: job.is_finished is get_status() == "finished".
IsFinished(st) == st = "finished"

\* A slip that returns the job's status in place of its result.
ResultOkStatus(result) == Ok("finished")

\* Line 129: return Ok(job.result).
ResultOk(result) == Ok(result)

\* Line 130: Err carrying the status job.get_status() returns now.
ResultNotFinished(st) == Err("Job is not finished yet (status: ", st)

\* A slip that reports every failure with the not-finished message.
ResultFailedAsNotFinished(exc) == Err("Job is not finished yet (status: ", exc)

\* Lines 131-132: the caught exception as Err.
ResultFailed(exc) == Err("Failed to get job result: ", exc)

\* Line 127: Job.fetch.
ResultFetch(c, id) ==
    /\ CanCall(c)
    /\ LET exc == FetchRaises(id, jobs, netUp) IN
       IF exc # None
       THEN Return(c, "result", id, None, ResultFailed(exc))
       ELSE Goto(c, "result", id, "fetched", None)
    /\ UNCHANGED <<environ, netUp, client, jobs>>

\* Line 128: job.is_finished reads the job's status from the backend; st keeps
\* the status this read saw.
ResultCheck(c) ==
    /\ call[c].op = "result" /\ call[c].pc = "fetched"
    /\ LET id == call[c].id
           exc == AccessRaises(netUp) IN
       IF exc # None
       THEN Return(c, "result", id, None, ResultFailed(exc))
       ELSE Goto(c, "result", id, "checked", jobs[id].status)
    /\ UNCHANGED <<environ, netUp, client, jobs>>

\* Line 129 when is_finished held: job.result reads the stored result.
\* Line 130 otherwise: job.get_status() reads the status once more.
ResultFinish(c) ==
    /\ call[c].op = "result" /\ call[c].pc = "checked"
    /\ LET id == call[c].id
           st == call[c].st
           exc == AccessRaises(netUp)
           r == IF exc # None THEN ResultFailed(exc)
                ELSE IF IsFinished(st) THEN ResultOk(jobs[id].result)
                ELSE ResultNotFinished(jobs[id].status) IN
       Return(c, "result", id, st, r)
    /\ UNCHANGED <<environ, netUp, client, jobs>>

(* ------------------------------- worker -------------------------------- *)

\* The worker process, outside the Client: queued -> started.
WorkerStart(n) ==
    /\ n \in DOMAIN jobs /\ jobs[n].status = "queued"
    /\ jobs' = [jobs EXCEPT ![n].status = "started"]
    /\ UNCHANGED <<environ, netUp, client, call>>

\* The running job attaches metadata (its progress) before it ends.
WorkerProgress(n) ==
    /\ n \in DOMAIN jobs /\ jobs[n].status = "started" /\ jobs[n].meta = "m0"
    /\ jobs' = [jobs EXCEPT ![n].meta = "m1"]
    /\ UNCHANGED <<environ, netUp, client, call>>

\* The jobs deferred on job id are put on the queue once that job finished.
Release(js, id) ==
    [m \in DOMAIN js |->
        IF js[m].status = "deferred" /\ js[m].dep = id
        THEN [js[m] EXCEPT !.status = "queued", !.dep = None]
        ELSE js[m]]

\* started -> finished, storing the value the job's function returned and
\* releasing the jobs that waited for this one.
WorkerFinish(n, v) ==
    /\ n \in DOMAIN jobs /\ jobs[n].status = "started" /\ jobs[n].meta = "m1"
    /\ jobs' = Release([jobs EXCEPT ![n].status = "finished", ![n].result = v], n)
    /\ UNCHANGED <<environ, netUp, client, call>>

\* started -> failed.
WorkerFail(n) ==
    /\ n \in DOMAIN jobs /\ jobs[n].status = "started" /\ jobs[n].meta = "m1"
    /\ jobs' = [jobs EXCEPT ![n].status = "failed"]
    /\ UNCHANGED <<environ, netUp, client, call>>

(* ------------------------------- network ------------------------------- *)

\* The backend becomes unreachable, or reachable again.
NetDown == netUp /\ netUp' = FALSE /\ UNCHANGED <<environ, client, jobs, call>>

NetRestore == ~netUp /\ netUp' = TRUE /\ UNCHANGED <<environ, client, jobs, call>>

(* ---------------------------- specifications --------------------------- *)

\* One caller uses a Client built with no argument and no REDIS_URL, and
\* submits with every choice of job_id and depends_on, while the worker runs
\* jobs and the backend comes and goes.
Init ==
    /\ environ = None
    /\ netUp \in BOOLEAN
    /\ client = NoClient
    /\ jobs = NoJobs
    /\ call = [c \in Callers |-> Idle]

Next ==
    \/ Construct(None)
    \/ \E c \in Callers, f \in Funcs, j \in JobIdChoices, d \in DependsOnChoices :
          EnqueueJob(c, f, j, d)
    \/ \E c \in Callers, id \in IdInputs(jobs) : StatusFetch(c, id)
    \/ \E c \in Callers : StatusGet(c)
    \/ \E c \in Callers, id \in IdInputs(jobs) : GetJobMeta(c, id)
    \/ \E c \in Callers, id \in IdInputs(jobs) : CancelFetch(c, id)
    \/ \E c \in Callers : CancelJob(c)
    \/ \E c \in Callers, id \in IdInputs(jobs) : ResultFetch(c, id)
    \/ \E c \in Callers : ResultCheck(c)
    \/ \E c \in Callers : ResultFinish(c)
    \/ \E n \in Issued(jobs) : WorkerStart(n)
    \/ \E n \in Issued(jobs) : WorkerProgress(n)
    \/ \E n \in Issued(jobs), v \in Values : WorkerFinish(n, v)
    \/ \E n \in Issued(jobs) : WorkerFail(n)
    \/ NetDown
    \/ NetRestore

Spec == Init /\ [][Next]_vars

\* Construction with every argument and every value of REDIS_URL, with the
\* backend reachable or not, followed by the five operations.  A submission
\* carries no rq option and no worker runs here: Spec explores both.
InitConstruct ==
    /\ environ \in EnvChoices
    /\ netUp \in BOOLEAN
    /\ client = NoClient
    /\ jobs = NoJobs
    /\ call = [c \in Callers |-> Idle]

NextConstruct ==
    \/ \E a \in ArgChoices : Construct(a)
    \/ \E c \in Callers, f \in Funcs : EnqueueJob(c, f, None, None)
    \/ \E c \in Callers, id \in IdInputs(jobs) : StatusFetch(c, id)
    \/ \E c \in Callers : StatusGet(c)
    \/ \E c \in Callers, id \in IdInputs(jobs) : GetJobMeta(c, id)
    \/ \E c \in Callers, id \in IdInputs(jobs) : CancelFetch(c, id)
    \/ \E c \in Callers : CancelJob(c)
    \/ \E c \in Callers, id \in IdInputs(jobs) : ResultFetch(c, id)
    \/ \E c \in Callers : ResultCheck(c)
    \/ \E c \in Callers : ResultFinish(c)
    \/ NetDown
    \/ NetRestore

SpecConstruct == InitConstruct /\ [][NextConstruct]_vars

\* Two callers issue operations on the one Client at the same time: their
\* calls interleave at every backend call, with the backend reachable or
\* not, and a submission can carry a job_id.  No worker runs and no job
\* waits for another here: Spec explores both.
ConcCallers == {"c1", "c2"}

InitConc ==
    /\ environ = None
    /\ netUp = TRUE
    /\ client = NoClient
    /\ jobs = NoJobs
    /\ call = [c \in ConcCallers |-> Idle]

NextConc ==
    \/ Construct(None)
    \/ \E c \in ConcCallers, f \in Funcs, j \in JobIdChoices : EnqueueJob(c, f, j, None)
    \/ \E c \in ConcCallers, id \in IdInputs(jobs) : StatusFetch(c, id)
    \/ \E c \in ConcCallers : StatusGet(c)
    \/ \E c \in ConcCallers, id \in IdInputs(jobs) : GetJobMeta(c, id)
    \/ \E c \in ConcCallers, id \in IdInputs(jobs) : CancelFetch(c, id)
    \/ \E c \in ConcCallers : CancelJob(c)
    \/ \E c \in ConcCallers, id \in IdInputs(jobs) : ResultFetch(c, id)
    \/ \E c \in ConcCallers : ResultCheck(c)
    \/ \E c \in ConcCallers : ResultFinish(c)
    \/ NetDown
    \/ NetRestore

SpecConc == InitConc /\ [][NextConc]_vars

(* ---------------------------- steps of a call -------------------------- *)

InResult(c) == call[c].op = "result" /\ call[c].pc = "done"

Done(c) == call[c].pc = "done"

\* Caller c takes a step of operation op.
OpStep(c, op) == call'[c] # call[c] /\ call'[c].op = op

\* The step in which caller c's Enqueue returns Ok.
EnqueueOkStep(c) ==
    /\ call'[c] # call[c]
    /\ call'[c].op = "enqueue" /\ call'[c].ret.kind = "Ok"

\* The step in which caller c starts a Status call on an issued ID.
StatusFetchStep(c) ==
    /\ call[c].pc \in {"idle", "done"}
    /\ call'[c] # call[c] /\ call'[c].op = "status"
    /\ call'[c].id \in Issued(jobs)

\* The step in which caller c's Status runs job.get_status() and returns.
StatusStep(c) ==
    /\ call[c].op = "status" /\ call[c].pc = "fetched"
    /\ call'[c].op = "status" /\ call'[c].pc = "done"

\* The step in which caller c's Cancel runs job.cancel() and returns.
CancelStep(c) ==
    /\ call[c].op = "cancel" /\ call[c].pc = "fetched"
    /\ call'[c].op = "cancel" /\ call'[c].pc = "done"

\* The step in which caller c's Result evaluates job.is_finished.
ResultCheckStep(c) ==
    /\ call[c].op = "result" /\ call[c].pc = "fetched"
    /\ call'[c].op = "result" /\ call'[c].pc = "checked"

\* The step in which caller c's Result reads job.result or job.get_status()
\* and returns.
ResultFinishStep(c) ==
    /\ call[c].op = "result" /\ call[c].pc = "checked"
    /\ call'[c].op = "result" /\ call'[c].pc = "done"

\* The step in which caller c's Result call returns.
ResultReturnStep(c) ==
    /\ call'[c] # call[c]
    /\ call'[c].op = "result" /\ call'[c].pc = "done"

(* ------------------------------- claims -------------------------------- *)

\* C1: a Result call that found the job in a status other than finished
\* (queued, started, failed, canceled), or that names a job no worker has
\* finished, returns Err and never Ok.
C1Theorem ==
    \A c \in Callers :
        InResult(c) =>
            /\ (call[c].st # "finished" => call[c].ret.kind = "Err")
            /\ (call[c].id \in Issued(jobs) /\ jobs[call[c].id].result = None
                    => call[c].ret.kind = "Err")

\* A Result call that saw the job canceled has returned Err.
C1Witness ==
    \E c \in Callers :
        /\ InResult(c) /\ call[c].st = "canceled"
        /\ call[c].ret = ResultNotFinished("canceled")

\* C2: a Result call that reaches the backend and finds the job finished
\* returns Ok(v), v being exactly the value the worker stored: the value the
\* backend holds for the job when the call returns.
C2Theorem ==
    /\ [](\A c \in Callers :
            InResult(c) /\ call[c].st = "finished" =>
                \/ call[c].ret.kind = "Ok" /\ call[c].ret.value \in Values
                \/ call[c].ret = ResultFailed("ConnectionError"))
    /\ [][\A c \in Callers :
            ResultFinishStep(c) /\ call[c].st = "finished" /\ netUp =>
                call'[c].ret = Ok(jobs[call[c].id].result)]_vars

\* Enqueue, worker finishes with v42, Result returned Ok(v42).
C2Witness ==
    \E c \in Callers :
        /\ InResult(c) /\ call[c].ret = Ok("v42")
        /\ jobs[call[c].id].status = "finished"
        /\ jobs[call[c].id].result = "v42"

ByIdOps == {"status", "meta", "cancel", "result"}

\* A call by job ID that has returned while the backend has issued no such ID.
UnknownDone(c) ==
    /\ call[c].pc = "done" /\ call[c].op \in ByIdOps
    /\ call[c].id \notin Issued(jobs)

\* The step in which caller c starts a call by job ID on an ID never issued.
UnknownStep(c) ==
    /\ call'[c] # call[c]
    /\ call'[c].op \in ByIdOps
    /\ call'[c].id \notin Issued(jobs)

\* C3: Status, Metadata, Cancel and Result on a job ID the backend never
\* issued each return Err (no exception leaves the call, no Ok of any value),
\* and the call leaves the backend's jobs unchanged.
C3Theorem ==
    /\ [](\A c \in Callers : UnknownDone(c) => call[c].ret.kind = "Err")
    /\ [][\A c \in Callers : UnknownStep(c) =>
             /\ jobs' = jobs
             /\ call'[c].pc = "done"
             /\ call'[c].ret.kind = "Err"]_vars

\* Metadata on the never-issued ID job-0 reached the backend and returned Err.
C3Witness ==
    \E c \in Callers :
        /\ UnknownDone(c) /\ call[c].op = "meta" /\ call[c].id = JobId(0)
        /\ call[c].ret = MetaReturn("NoSuchJobError", None)

Prefix(op) ==
    CASE op = "enqueue" -> "Failed to enqueue job: "
      [] op = "status" -> "Failed to get job status: "
      [] op = "meta" -> "Failed to get job metadata: "
      [] op = "cancel" -> "Failed to cancel job: "
      [] OTHER -> "Failed to get job result: "

\* The next step of a call in progress.
Proceed(c) == StatusGet(c) \/ CancelJob(c) \/ ResultCheck(c) \/ ResultFinish(c)

\* C4: every operation ends by returning Ok or Err; a step of an operation
\* that finds the backend unreachable, the ID unknown or the job refused by
\* the backend ends the operation with Err(message), never with an exception
\* leaving the call; and a call in progress can always take its next step.
C4Theorem ==
    /\ [](\A c \in Callers :
            /\ call[c].pc = "done" => call[c].ret.kind \in {"Ok", "Err"}
            /\ call[c].pc \notin {"idle", "done"} => ENABLED Proceed(c))
    /\ [][\A c \in Callers : call'[c] # call[c] =>
             /\ call'[c].ret.kind # "Raised"
             /\ ~netUp =>
                   /\ call'[c].pc = "done"
                   /\ call'[c].ret = Err(Prefix(call'[c].op), "ConnectionError")]_vars

\* The connection was lost between Job.fetch and job.cancel(); Cancel
\* returned Err with the message of the failure.
C4Witness ==
    \E c \in Callers :
        /\ call[c].pc = "done" /\ call[c].op = "cancel"
        /\ call[c].id \in Issued(jobs)
        /\ call[c].ret = Err("Failed to cancel job: ", "ConnectionError")
        /\ jobs[call[c].id].status # "canceled"

\* C5 as claimed: when the backend is unreachable while the constructor runs,
\* the constructor does not return a Client.
C5Claim ==
    [][client.state = "none" /\ ~netUp => client'.state # "ready"]_vars

\* C6 as claimed: a Cancel that reaches the backend while the job is still
\* queued returns Ok(None) and leaves the job canceled; a canceled job stays
\* canceled under every later step; and every Status call that reaches the
\* backend from then on returns Ok("canceled").
C6Claim ==
    [][/\ \A c \in Callers :
            CancelStep(c) /\ netUp /\ jobs[call[c].id].status = "queued" =>
                /\ call'[c].ret = Ok(None)
                /\ jobs'[call[c].id].status = "canceled"
       /\ \A n \in DOMAIN jobs :
            jobs[n].status = "canceled" => jobs'[n].status = "canceled"
       /\ \A c \in Callers :
            StatusStep(c) /\ netUp /\ jobs[call[c].id].status = "canceled" =>
                call'[c].ret = Ok("canceled")]_vars

\* C7 as claimed: Enqueue returning Ok(id) leaves job id on the backend in
\* status queued; a Status(id) call on an issued ID never fails for an
\* unknown job; and a Status call that reaches the backend returns Ok of the
\* status the job holds at that moment: Ok("queued") before any worker step,
\* and with worker steps in between Ok("started") or a later lifecycle state.
C7Claim ==
    [][/\ \A c \in Callers :
            EnqueueOkStep(c) =>
                /\ call'[c].ret.value \in Issued(jobs')
                /\ jobs'[call'[c].ret.value].status = "queued"
       /\ \A c \in Callers :
            StatusFetchStep(c) =>
                \/ call'[c].pc = "fetched"
                \/ /\ ~netUp
                   /\ call'[c].ret = Err("Failed to get job status: ", "ConnectionError")
       /\ \A c \in Callers :
            StatusStep(c) /\ netUp =>
                /\ call'[c].ret = Ok(jobs[call[c].id].status)
                /\ jobs[call[c].id].status = "queued" => call'[c].ret = Ok("queued")
                /\ call'[c].ret.value \in Statuses]_vars

\* C8 as claimed: whenever Status returns Ok(s), s is one of queued, started,
\* finished, failed, canceled.
C8Claim ==
    \A c \in Callers :
        call[c].op = "status" /\ call[c].pc = "done" /\ call[c].ret.kind = "Ok"
            => call[c].ret.value \in Statuses

\* C9 as claimed: for every function reference and argument combination,
\* Enqueue returns Err(message) or Ok(id), id being a non-empty job ID that
\* names a job on the backend; it never returns Ok with an empty ID.
C9Claim ==
    \A c \in Callers :
        call[c].op = "enqueue" /\ call[c].pc = "done" =>
            \/ /\ call[c].ret.kind = "Err"
               /\ call[c].ret.value[1] = "Failed to enqueue job: "
            \/ /\ call[c].ret.kind = "Ok"
               /\ call[c].ret.value # EmptyId
               /\ call[c].ret.value \in Issued(jobs)

\* The resolution the specification states: the explicit argument when
\* supplied, else the environment variable's value when set, else the default.
C10Reference(arg, env) ==
    CASE arg # None -> arg
      [] arg = None /\ env # None -> env
      [] OTHER -> "redis://localhost:6379/0"

\* C10: for every combination of argument (supplied or omitted) and
\* environment variable (set or unset), the address the constructor uses is
\* the argument, else the variable's value, else the hard-coded default; a
\* Client that exists is connected to that address.
C10Theorem ==
    client.state # "none" =>
        /\ client.url = C10Reference(client.arg, environ)
        /\ client.state = "ready" => client.conn = client.url

\* Argument omitted, variable set: the Client is connected to the variable's value.
C10Witness ==
    /\ client.state = "ready" /\ client.arg = None
    /\ environ = EnvUrl /\ client.conn = EnvUrl

\* A Result call that returned the Err reporting the job as not finished.
NotFinishedErr(c) ==
    /\ InResult(c) /\ call[c].ret.kind = "Err"
    /\ call[c].ret.value[1] = "Job is not finished yet (status: "

\* C11 as claimed: the status carried by the not-finished Err is never
\* finished, whatever worker steps interleave with the call.
C11Claim ==
    \A c \in Callers :
        NotFinishedErr(c) => call[c].ret.value[2] # "finished"

\* C12 as claimed: every operation makes exactly one backend call per call.
C12Claim == \A c \in Callers : Done(c) => call[c].rt = 1

\* C12, amended: Enqueue and Metadata make one backend call per call; Status
\* and Cancel make two (Job.fetch, then get_status or cancel) and Result
\* three (Job.fetch, is_finished, then result or get_status), fewer only
\* when an earlier one raised and the call returned Err at once.
C12Theorem ==
    \A c \in Callers :
        /\ call[c].pc \notin {"idle", "done"} => call[c].rt \in {1, 2}
        /\ Done(c) /\ call[c].op \in {"enqueue", "meta"} => call[c].rt = 1
        /\ Done(c) /\ call[c].op \in {"status", "cancel"} =>
              /\ call[c].rt \in {1, 2}
              /\ call[c].ret.kind = "Ok" => call[c].rt = 2
              /\ call[c].rt = 1 => call[c].ret.kind = "Err"
        /\ Done(c) /\ call[c].op = "result" =>
              /\ call[c].rt \in {1, 2, 3}
              /\ call[c].ret.kind = "Ok" \/ NotFinishedErr(c) => call[c].rt = 3
              /\ call[c].rt < 3 =>
                    /\ call[c].ret.kind = "Err"
                    /\ call[c].ret.value[1] = "Failed to get job result: "

\* A Result call returned Ok after its three backend calls.
C12Witness ==
    \E c \in Callers :
        InResult(c) /\ call[c].ret.kind = "Ok" /\ call[c].rt = 3

\* Every job on the backend before the step is the same after it.
JobsKept == \A n \in DOMAIN jobs : n \in DOMAIN jobs' /\ jobs'[n] = jobs[n]

\* C13 as claimed: only Cancel changes an existing job: every step of
\* Status, Metadata and Result leaves all jobs as they are, Enqueue leaves
\* every job that existed before it unchanged, and Cancel changes nothing
\* but the status of the job it names.
C13Claim ==
    [][\A c \in DOMAIN call :
          /\ OpStep(c, "status") \/ OpStep(c, "meta") \/ OpStep(c, "result") => jobs' = jobs
          /\ OpStep(c, "enqueue") => JobsKept
          /\ OpStep(c, "cancel") =>
                /\ DOMAIN jobs' = DOMAIN jobs
                /\ \A n \in DOMAIN jobs :
                      /\ jobs'[n].result = jobs[n].result
                      /\ jobs'[n].meta = jobs[n].meta
                      /\ n # call'[c].id => jobs'[n] = jobs[n]]_vars

Terminal == {"finished", "failed", "canceled"}

\* C14 as claimed, for Cancel, the operation the claim singles out: a job
\* whose status is finished, failed or canceled keeps that status under every
\* step of Cancel, which moves a job to canceled only from a status that is
\* not terminal.  (What Enqueue does to a job under an ID in use is C13's.)
C14Claim ==
    [][\A c \in DOMAIN call :
          CancelStep(c) =>
              \A n \in DOMAIN jobs :
                  jobs[n].status \in Terminal => jobs'[n].status = jobs[n].status]_vars

\* C15 as claimed: an Enqueue call makes one submission: it adds at most one
\* job; when it returns Ok(id) it has added exactly one, in status queued
\* with no result, and id is that job's ID; it makes one backend call whether
\* it returns Ok or Err.
C15Claim ==
    [][\A c \in DOMAIN call :
          OpStep(c, "enqueue") =>
              /\ Cardinality(DOMAIN jobs' \ DOMAIN jobs) <= 1
              /\ call'[c].rt = 1
              /\ call'[c].ret.kind = "Ok" =>
                    /\ DOMAIN jobs' \ DOMAIN jobs = {call'[c].ret.value}
                    /\ jobs'[call'[c].ret.value].status = "queued"
                    /\ jobs'[call'[c].ret.value].result = None
              /\ call'[c].ret.kind = "Err" => jobs' = jobs]_vars

\* C16: what Status, Metadata and Result report is read from the backend
\* during the call, never remembered from an earlier one: Status returns the
\* status the job holds when get_status() runs, Metadata the metadata it holds
\* when Job.fetch runs, and Result decides on the status held when
\* is_finished runs and returns the result, or carries the status, held when
\* it returns.
C16Theorem ==
    [][\A c \in DOMAIN call :
          /\ StatusStep(c) /\ call'[c].ret.kind = "Ok" =>
                call'[c].ret.value = jobs[call[c].id].status
          /\ OpStep(c, "meta") /\ call'[c].ret.kind = "Ok" =>
                call'[c].ret.value = jobs[call'[c].id].meta
          /\ ResultCheckStep(c) => call'[c].st = jobs[call[c].id].status
          /\ ResultFinishStep(c) /\ call'[c].ret.kind = "Ok" =>
                call'[c].ret.value = jobs[call[c].id].result
          /\ ResultFinishStep(c) /\ call'[c].ret.kind = "Err" /\ netUp =>
                call'[c].ret = ResultNotFinished(jobs[call[c].id].status)]_vars

\* Metadata returned the progress the worker attached to the running job.
C16Witness ==
    \E c \in DOMAIN call :
        /\ call[c].op = "meta" /\ Done(c) /\ call[c].ret = Ok("m1")
        /\ jobs[call[c].id].status = "started"

\* C17: once the constructor has returned a Client, no step of any operation,
\* returning Ok or Err, with calls of two callers interleaved, changes the
\* Client's connection or its queue.
C17Theorem ==
    [][client.state = "ready" =>
          /\ client'.state = "ready"
          /\ client'.conn = client.conn
          /\ client'.queue = client.queue]_vars

\* One caller's Enqueue failed on a lost connection while the other's Cancel
\* is between Job.fetch and job.cancel(); connection and queue are those the
\* constructor set.
C17Witness ==
    \E c, d \in DOMAIN call :
        /\ call[c].op = "enqueue" /\ Done(c) /\ call[c].ret.kind = "Err"
        /\ call[d].op = "cancel" /\ call[d].pc = "fetched"
        /\ client.state = "ready"
        /\ client.conn = DefaultUrl /\ client.queue = "default"

\* The backend call that step makes raises: the backend is unreachable, or
\* the step is Job.fetch and no job has the ID.
ResultStepRaises(c) ==
    \/ ~netUp
    \/ call[c].pc \in {"idle", "done"} /\ call'[c].id \notin Issued(jobs)

\* The step returns for a job that was fetched and is not finished.
ResultStepNotFinished(c) ==
    /\ call[c].op = "result" /\ call[c].pc \in {"fetched", "checked"}
    /\ jobs[call[c].id].status # "finished"
    /\ call[c].pc = "checked" => call[c].st # "finished"

\* C18 as claimed: a Result call on a job fetched and not finished always
\* returns the Err that starts with "Job is not finished yet (status: "; a
\* call that fails to fetch the job or to reach the backend always returns
\* the Err that starts with "Failed to get job result: "; no not-finished
\* job produces the second form.
C18Claim ==
    [][\A c \in DOMAIN call :
          ResultReturnStep(c) =>
              /\ call'[c].ret.kind = "Err" =>
                    call'[c].ret.value[1] \in
                        {"Job is not finished yet (status: ", "Failed to get job result: "}
              /\ ResultStepNotFinished(c) =>
                    /\ call'[c].ret.kind = "Err"
                    /\ call'[c].ret.value[1] = "Job is not finished yet (status: "]_vars

\* C18, amended: Result's two failures are told apart by the message.  When
\* no backend call raised and is_finished was false the Err starts with "Job
\* is not finished yet (status: "; when a backend call raised (Job.fetch,
\* is_finished, or get_status at line 130, the last two on a job already
\* fetched and not finished) it starts with "Failed to get job result: ";
\* the first form comes from no raised call and the second from no call that
\* ran through.
C18Theorem ==
    [][\A c \in DOMAIN call :
          ResultReturnStep(c) =>
              /\ ResultStepRaises(c) =>
                    /\ call'[c].ret.kind = "Err"
                    /\ call'[c].ret.value[1] = "Failed to get job result: "
                    /\ call'[c].ret.value[2] \in {"ConnectionError", "NoSuchJobError"}
              /\ ~ResultStepRaises(c) =>
                    /\ ResultFinishStep(c)
                    /\ IF call[c].st = "finished"
                       THEN call'[c].ret.kind = "Ok"
                       ELSE /\ call'[c].ret.kind = "Err"
                            /\ call'[c].ret.value[1] = "Job is not finished yet (status: "
                            /\ call'[c].ret.value[2] = jobs[call[c].id].status]_vars

\* A queued job, fetched and found not finished, whose call then lost the
\* connection at line 130: the Err is the transport form.
C18Witness ==
    \E c \in DOMAIN call :
        /\ InResult(c) /\ call[c].st = "queued" /\ call[c].rt = 3
        /\ jobs[call[c].id].status = "queued"
        /\ call[c].ret = ResultFailed("ConnectionError")

\* C19 as claimed: the IDs successful Enqueue calls return are pairwise
\* distinct, also for calls of two callers: the ID one caller holds is never
\* the ID another call returned.
C19Claim ==
    \A c, d \in DOMAIN call :
        /\ c # d
        /\ call[c].op = "enqueue" /\ Done(c) /\ call[c].ret.kind = "Ok"
        /\ call[d].op = "enqueue" /\ Done(d) /\ call[d].ret.kind = "Ok"
        => call[c].ret.value # call[d].ret.value

====
